---- MODULE Spec2Model ----
(***************************************************************************)
(* A model of asilib's map projection pipeline:                            *)
(*   src/asilib/plot/plot_map.py  plot_map, pcolormesh_nan,                *)
(*                                _mask_low_horizon, __main__              *)
(*   src/asilib/asi/trex.py       trex_rgb (exact altitude resolution)     *)
(*                                                                         *)
(* Arrays are functions over 0-based index ranges, as in numpy: a 2-d      *)
(* array is [0..H-1 -> [0..W-1 -> value]].  A value is np.nan (NaN) or a   *)
(* finite number; finite numbers are naturals (a normalised frame value    *)
(* is the pair <<v, m>> standing for v / m).  Infinite values are not      *)
(* drawn as inputs.                                                        *)
(***************************************************************************)
EXTENDS Integers, Sequences, FiniteSets, TLC

VARIABLES
    x,         \* pcolormesh_nan's x argument (lon grid), written in place
    y,         \* pcolormesh_nan's y argument (lat grid), written in place
    c,         \* pcolormesh_nan's c argument (the frame)
    x0,        \* the contents of x before the first call (history)
    y0,        \* the contents of y before the first call (history)
    ax,        \* the canvas: the sequence of meshes drawn and of text labels
    m_args,    \* the caller's arrays handed to _mask_low_horizon
    m_ret,     \* <<the arrays _mask_low_horizon returned>>, <<>> before the call
    skymap,    \* the calibration record load_skymap returns
    frame,     \* the image array get_frame returns
    log,       \* one entry per plot_map call made against the canvas ax
    last       \* arguments and outcome of the most recent call

vars == <<x, y, c, x0, y0, ax, m_args, m_ret, skymap, frame, log, last>>

(***************************************************************************)
(* Values and arrays                                                       *)
(***************************************************************************)
NaN == -1          \* np.nan; every finite value of the model is >= 0
None == -2         \* Python's None where an index, altitude or keyword is expected

Max(S) == CHOOSE v \in S : \A w \in S : w <= v
Min(S) == CHOOSE v \in S : \A w \in S : v <= w

isfinite(v) == v # NaN
isnan(v) == v = NaN

\* The row and column index sets of a 2-d array.
Rows(a) == DOMAIN a
Cols(a) == IF DOMAIN a = {} THEN {} ELSE DOMAIN a[0]
\* a.flatten() as a set of values
Values(a) == {a[r][k] : r \in Rows(a), k \in Cols(a)}

\* np.nanmax over a set of values: NaN when there is no finite value
\* (numpy warns "All-NaN slice encountered" and returns nan).
nanmax(S) == IF S \subseteq {NaN} THEN NaN ELSE Max(S \ {NaN})

\* a[rows, :] = v
FillRows(a, rows, v) ==
    [r \in Rows(a) |-> IF r \in rows THEN [k \in Cols(a) |-> v] ELSE a[r]]

\* Mutant of Reversed: a[::-1, :], the rows reversed and the columns not.
ReversedRowsOnly(a) ==
    LET H == Cardinality(Rows(a))
    IN  [r \in Rows(a) |-> [k \in Cols(a) |-> a[H - 1 - r][k]]]

\* a[::-1, ::-1]
Reversed(a) ==
    LET H == Cardinality(Rows(a))
        W == Cardinality(Cols(a))
    IN  [r \in Rows(a) |-> [k \in Cols(a) |-> a[H - 1 - r][W - 1 - k]]]

(***************************************************************************)
(* The canvas.  ax.pcolormesh appends a mesh, ax.text appends a label.     *)
(***************************************************************************)
NewAxes == [is_none |-> FALSE, meshes |-> <<>>, texts |-> <<>>]
\* None where a subplot is expected (ax=None, and no subplot returned)
NoAxes == [is_none |-> TRUE, meshes |-> <<>>, texts |-> <<>>]

ax_pcolormesh(a, X, Y, C, cmap, norm) ==
    [a EXCEPT !.meshes = Append(@, [x |-> X, y |-> Y, c |-> C,
                                    cmap |-> cmap, norm |-> norm])]

ax_text(a, s) == [a EXCEPT !.texts = Append(@, s)]

(***************************************************************************)
(* pcolormesh_nan                                                          *)
(***************************************************************************)
\* mask = np.isfinite(x) & np.isfinite(y)
Mask(X, Y) ==
    [r \in Rows(X) |-> [k \in Cols(X) |-> isfinite(X[r][k]) /\ isfinite(Y[r][k])]]

\* m.nonzero()[0]: the column indices where the mask row is True
nonzero(m) == {k \in DOMAIN m : m[k]}

\* Mutant of ClampRow: the columns before good[0] are left as they are.
ClampRowRightOnly(row, good) ==
    [k \in DOMAIN row |-> IF k >= Max(good) THEN row[Max(good)] ELSE row[k]]

\* x[i, good[-1]:] = x[i, good[-1]] and then x[i, :good[0]] = x[i, good[0]]
ClampRow(row, good) ==
    LET right == [k \in DOMAIN row |->
                     IF k >= Max(good) THEN row[Max(good)] ELSE row[k]]
    IN  [k \in DOMAIN row |-> IF k < Min(good) THEN right[Min(good)] ELSE right[k]]

\* Mutant of LoopBody: bottom is set once, by the second valid row, like top.
LoopBodyFirstBottom(s, i, mask) ==
    LET good == nonzero(mask[i])
    IN  IF good = {} THEN s
        ELSE [x |-> [s.x EXCEPT ![i] = ClampRow(@, good)],
              y |-> [s.y EXCEPT ![i] = ClampRow(@, good)],
              top |-> IF s.top = None THEN i ELSE s.top,
              bottom |-> IF s.top = None \/ s.bottom # None THEN s.bottom ELSE i]

\* One iteration of "for i, m in enumerate(mask)".
LoopBody(s, i, mask) ==
    LET good == nonzero(mask[i])
    IN  IF good = {} THEN s
        ELSE [x |-> [s.x EXCEPT ![i] = ClampRow(@, good)],
              y |-> [s.y EXCEPT ![i] = ClampRow(@, good)],
              top |-> IF s.top = None THEN i ELSE s.top,
              bottom |-> IF s.top = None THEN s.bottom ELSE i]

RECURSIVE Loop(_, _, _)
Loop(s, i, mask) ==
    IF i \notin DOMAIN mask THEN s ELSE Loop(LoopBody(s, i, mask), i + 1, mask)

\* The rows a[:t, :] selects; a[:None, :] is every row.
RowsBefore(a, t) == IF t = None THEN Rows(a) ELSE {r \in Rows(a) : r < t}
\* The rows a[b:, :] selects; a[None:, :] is every row.
RowsFrom(a, b) == IF b = None THEN Rows(a) ELSE {r \in Rows(a) : r >= b}
\* The values of a[t, :]; a[None, :] is the whole array with a new axis.
RowValues(a, t) == IF t = None THEN Values(a) ELSE {a[t][k] : k \in Cols(a)}

\* Mutant of FillAbove: np.max in place of np.nanmax (NaN wins).
FillAboveMax(a, t) ==
    FillRows(a, RowsBefore(a, t),
             IF NaN \in RowValues(a, t) THEN NaN ELSE Max(RowValues(a, t)))

\* x[:top, :] = np.nanmax(x[top, :])
FillAbove(a, t) == FillRows(a, RowsBefore(a, t), nanmax(RowValues(a, t)))
\* x[bottom:, :] = np.nanmax(x[bottom, :])
FillBelow(a, b) == FillRows(a, RowsFrom(a, b), nanmax(RowValues(a, b)))

\* The lon/lat grids as pcolormesh_nan leaves them (lines 164-194), with the
\* top and bottom the loop found.
Compress(X, Y) ==
    LET s == Loop([x |-> X, y |-> Y, top |-> None, bottom |-> None], 0, Mask(X, Y))
    IN  [x |-> FillBelow(FillAbove(s.x, s.top), s.bottom),
         y |-> FillBelow(FillAbove(s.y, s.top), s.bottom),
         top |-> s.top, bottom |-> s.bottom]

\* pcolormesh_nan(x, y, c, ax, cmap, norm): the arrays x and y after the call
\* (they are written in place) and the canvas after ax.pcolormesh.  The
\* function has no raise statement and no assert.
pcolormesh_nan(X, Y, C, a, cmap, norm) ==
    LET r == Compress(X, Y)
    IN  [x |-> r.x, y |-> r.y,
         ax |-> ax_pcolormesh(a, r.x, r.y, Reversed(C), cmap, norm)]

(***************************************************************************)
(* SpecCompress: pcolormesh_nan called, and called again on the arrays it  *)
(* wrote, on lon/lat grids drawn from a bounded family.                    *)
(***************************************************************************)
MaxRows == 3       \* rows of a drawn lon/lat grid
MaxCols == 3       \* columns of a drawn lon/lat grid
MaxCells == 9      \* entries of a drawn lon/lat grid
MaxOneSided == 1   \* entries finite in exactly one of the two grids
MaxApply == 2      \* calls of pcolormesh_nan on the same arrays

Unused == <<>>     \* the value of a variable a specification does not use

Dims == {d \in (1..MaxRows) \X (1..MaxCols) : d[1] * d[2] <= MaxCells}
Cells(H, W) == (0..(H - 1)) \X (0..(W - 1))

RECURSIVE SubsetsUpTo(_, _)
SubsetsUpTo(S, n) ==
    IF n = 0 THEN {{}}
    ELSE LET P == SubsetsUpTo(S, n - 1) IN P \cup {p \cup {e} : p \in P, e \in S}

\* The finite value at (r, k): one grid grows with the row and column index,
\* the other falls, so a row's maximum and its first and last valid values
\* differ, and so do the maxima of different rows.
Rising(r, k) == 10 * r + k + 1
Falling(H, W, r, k) == 10 * (H - 1 - r) + (W - k)

\* A grid of H x W entries: finite on V (jointly valid), 99 (larger than every
\* jointly valid value) on `own` (finite in this grid only), NaN elsewhere.
DrawGrid(H, W, V, own, rising) ==
    [r \in 0..(H - 1) |-> [k \in 0..(W - 1) |->
        IF <<r, k>> \in own THEN 99
        ELSE IF <<r, k>> \in V
             THEN (IF rising THEN Rising(r, k) ELSE Falling(H, W, r, k))
             ELSE NaN]]

\* A frame of H x W cells, each holding a different positive count.
DrawFrame(H, W) == [r \in 0..(H - 1) |-> [k \in 0..(W - 1) |-> Rising(r, k)]]

InitCompress ==
    /\ \E d \in Dims :
         \E O \in SubsetsUpTo(Cells(d[1], d[2]), MaxOneSided) :
           \E OX \in SUBSET O, V \in SUBSET (Cells(d[1], d[2]) \ O), p \in BOOLEAN :
             /\ x = DrawGrid(d[1], d[2], V, OX, p)
             /\ y = DrawGrid(d[1], d[2], V, O \ OX, ~p)
             /\ c = DrawFrame(d[1] - 1, d[2] - 1)
    /\ x0 = x
    /\ y0 = y
    /\ ax = NewAxes
    /\ m_args = Unused
    /\ m_ret = Unused
    /\ skymap = Unused
    /\ frame = Unused
    /\ log = <<>>
    /\ last = Unused

\* pcolormesh_nan(x, y, c, ax) with the default cmap=None, norm=None.
CallPcolormeshNan ==
    /\ Len(ax.meshes) < MaxApply
    /\ \E r \in {pcolormesh_nan(x, y, c, ax, None, None)} :
           /\ x' = r.x
           /\ y' = r.y
           /\ ax' = r.ax
    /\ UNCHANGED <<c, x0, y0, m_args, m_ret, skymap, frame, log, last>>

NextCompress == CallPcolormeshNan

SpecCompress == InitCompress /\ [][NextCompress]_vars

(***************************************************************************)
(* Claims about pcolormesh_nan, checked under SpecCompress.  The input     *)
(* grids are x0, y0; the grids handed to the renderer by the n-th call are *)
(* ax.meshes[n].x and ax.meshes[n].y.                                      *)
(***************************************************************************)
Called == Len(ax.meshes) >= 1
Out1 == ax.meshes[1]

ValidAt(r, k) == isfinite(x0[r][k]) /\ isfinite(y0[r][k])
ValidCols(r) == {k \in Cols(x0) : ValidAt(r, k)}
ValidRows == {r \in Rows(x0) : ValidCols(r) # {}}
HasValid == ValidRows # {}
FirstValidRow == Min(ValidRows)
LastValidRow == Max(ValidRows)
\* The maximum jointly valid value of row r of grid g0 (x0 or y0).
MaxValid(g0, r) == Max({g0[r][k] : k \in ValidCols(r)})
NoNaN(g) == NaN \notin Values(g)

\* A jointly invalid position that the compression does not reach: between
\* two valid columns of a row above the last valid row, or in a row without
\* valid entry between the first and the last valid row.
Interior(r, k) ==
    /\ FirstValidRow <= r
    /\ r < LastValidRow
    /\ ~ValidAt(r, k)
    /\ \/ ValidCols(r) = {}
       \/ Min(ValidCols(r)) < k /\ k < Max(ValidCols(r))

\* C1 as claimed: whenever some row has a jointly valid entry, the grids
\* handed to the renderer contain no NaN at any position.
C1_NoNaNAnywhere ==
    (Called /\ HasValid) => (NoNaN(Out1.x) /\ NoNaN(Out1.y))

\* C1 (amended): whenever some row has a jointly valid entry, the grids handed
\* to the renderer contain no NaN on the periphery; a NaN is left only at an
\* interior position (see Interior), which was jointly invalid in the input.
C1_NoNaNOnPeriphery ==
    (Called /\ HasValid) =>
        \A r \in Rows(x0), k \in Cols(x0) :
            (isnan(Out1.x[r][k]) \/ isnan(Out1.y[r][k])) => Interior(r, k)

\* C1 witness: a row above the first valid row, and NaN on both sides of the
\* valid entries of the first valid row, have been compressed to grids
\* without any NaN.
C1_Witness ==
    /\ Called /\ HasValid
    /\ 0 < FirstValidRow /\ FirstValidRow < LastValidRow
    /\ 0 \notin ValidCols(FirstValidRow)
    /\ Max(Cols(x0)) \notin ValidCols(FirstValidRow)
    /\ NoNaN(Out1.x) /\ NoNaN(Out1.y)

\* C2 as claimed: when no row has a jointly valid entry, pcolormesh_nan fails
\* before anything is drawn, so the canvas never holds a mesh.
C2_DegenerateDrawsNothing ==
    ~HasValid => ax.meshes = <<>>

\* C3: for grids with a jointly valid entry, every later application of the
\* compression hands the renderer the grids the first application did.
C3_Idempotent ==
    HasValid =>
        \A n \in 2..Len(ax.meshes) :
            ax.meshes[n].x = Out1.x /\ ax.meshes[n].y = Out1.y

\* C3 witness: a second application after a first one that changed the grids,
\* here with more than one valid row below an invalid one.
C3_Witness ==
    /\ Len(ax.meshes) >= 2 /\ HasValid
    /\ Out1.x # x0 /\ Out1.y # y0
    /\ 0 < FirstValidRow /\ FirstValidRow < LastValidRow

\* C4 as claimed: every entry finite in both input grids has the same lon and
\* lat value in the grids handed to the renderer.
C4_ValidCellsKept ==
    Called =>
        \A r \in Rows(x0), k \in Cols(x0) :
            ValidAt(r, k) => (Out1.x[r][k] = x0[r][k] /\ Out1.y[r][k] = y0[r][k])

\* C5 as claimed: every entry of a row above the first valid row equals the
\* maximum jointly valid value of that row, every entry of a row below the
\* last valid row that of the last valid row, in the lon and in the lat grid.
C5_BoundaryPropagation ==
    (Called /\ HasValid) =>
        \A r \in Rows(x0), k \in Cols(x0) :
            /\ r < FirstValidRow =>
                  /\ Out1.x[r][k] = MaxValid(x0, FirstValidRow)
                  /\ Out1.y[r][k] = MaxValid(y0, FirstValidRow)
            /\ r > LastValidRow =>
                  /\ Out1.x[r][k] = MaxValid(x0, LastValidRow)
                  /\ Out1.y[r][k] = MaxValid(y0, LastValidRow)

\* C12: the frame handed to the renderer is the input frame reversed along
\* both axes, value (i, j) being the input value at (H-1-i, W-1-j), with the
\* input's dimensions; the lon/lat grids handed over are the arrays x and y
\* themselves, with the input's dimensions and in their own order: a jointly
\* valid entry of a row above the last valid row is at its input position.
C12_FrameReversedGridsNot ==
    \A n \in 1..Len(ax.meshes) :
        LET mesh == ax.meshes[n]
            H == Cardinality(Rows(c))
            W == Cardinality(Cols(c))
        IN  /\ Rows(mesh.c) = Rows(c) /\ Cols(mesh.c) = Cols(c)
            /\ \A i \in Rows(c), j \in Cols(c) : mesh.c[i][j] = c[H - 1 - i][W - 1 - j]
            /\ Rows(mesh.x) = Rows(x0) /\ Cols(mesh.x) = Cols(x0)
            /\ Rows(mesh.y) = Rows(y0) /\ Cols(mesh.y) = Cols(y0)
            /\ n = Len(ax.meshes) => (mesh.x = x /\ mesh.y = y)
            /\ \A r \in Rows(x0), k \in Cols(x0) :
                  (ValidAt(r, k) /\ r < LastValidRow) =>
                      (mesh.x[r][k] = x0[r][k] /\ mesh.y[r][k] = y0[r][k])

\* C12 witness: a frame of at least two rows and two columns has been handed
\* over reversed, with grids that kept valid entries above the last valid row.
C12_Witness ==
    /\ Called
    /\ Cardinality(Rows(c)) >= 2 /\ Cardinality(Cols(c)) >= 2
    /\ Out1.c # c
    /\ Out1.c[0][0] = c[Cardinality(Rows(c)) - 1][Cardinality(Cols(c)) - 1]
    /\ HasValid /\ FirstValidRow < LastValidRow
    /\ Out1.x # x0

(***************************************************************************)
(* _mask_low_horizon                                                       *)
(***************************************************************************)
\* a[idx] = np.nan for a set idx of (row, column) index pairs.  Every index
\* the function uses lies inside the array: the lon/lat grids are one larger
\* than el_map in each dimension (lines 224-226).
SetNaN(a, idx) ==
    [r \in Rows(a) |-> [k \in Cols(a) |-> IF <<r, k>> \in idx THEN NaN ELSE a[r][k]]]

\* Mutant of LowHorizon: the comparison is turned round.
LowHorizonAbove(el_map, min_elevation) ==
    {i \in Rows(el_map) \X Cols(el_map) :
        isnan(el_map[i[1]][i[2]])
        \/ (isfinite(el_map[i[1]][i[2]]) /\ el_map[i[1]][i[2]] > min_elevation)}

\* idh = np.where(np.isnan(el_map) | (el_map < min_elevation)); a comparison
\* with nan is False.
LowHorizon(el_map, min_elevation) ==
    {i \in Rows(el_map) \X Cols(el_map) :
        isnan(el_map[i[1]][i[2]])
        \/ (isfinite(el_map[i[1]][i[2]]) /\ el_map[i[1]][i[2]] < min_elevation)}

\* idh_boundary_bottom = (idh[0]+1, idh[1]); idh_boundary_right = (idh[0], idh[1]+1)
BoundaryBottom(idh) == {<<i[1] + 1, i[2]>> : i \in idh}
BoundaryRight(idh) == {<<i[1], i[2] + 1>> : i \in idh}

\* Mutant of mask_low_horizon: the arrays are masked without being copied.
mask_low_horizon_in_place(frm, lon_map, lat_map, el_map, min_elevation) ==
    LET idh == LowHorizon(el_map, min_elevation)
        vertices == idh \cup BoundaryBottom(idh) \cup BoundaryRight(idh)
    IN  [frame_copy |-> SetNaN(frm, idh),
         lon_map_copy |-> SetNaN(lon_map, vertices),
         lat_map_copy |-> SetNaN(lat_map, vertices),
         frame |-> SetNaN(frm, idh),
         lon_map |-> SetNaN(lon_map, vertices),
         lat_map |-> SetNaN(lat_map, vertices),
         el_map |-> el_map]

\* _mask_low_horizon(frame, lon_map, lat_map, el_map, min_elevation): the three
\* arrays it returns, and its four array arguments as they are after the call.
\* astype(float) keeps every count's value.
mask_low_horizon(frm, lon_map, lat_map, el_map, min_elevation) ==
    LET idh == LowHorizon(el_map, min_elevation)
        vertices == idh \cup BoundaryBottom(idh) \cup BoundaryRight(idh)
    IN  [frame_copy |-> SetNaN(frm, idh),
         lon_map_copy |-> SetNaN(lon_map, vertices),
         lat_map_copy |-> SetNaN(lat_map, vertices),
         frame |-> frm,
         lon_map |-> lon_map,
         lat_map |-> lat_map,
         el_map |-> el_map]

(***************************************************************************)
(* SpecMask: _mask_low_horizon called once on arrays drawn from a bounded  *)
(* family.                                                                 *)
(***************************************************************************)
MaxElRows == 2     \* rows of a drawn elevation grid
MaxElCols == 2     \* columns of a drawn elevation grid

MinElevationDefault == 10    \* plot_map's default min_elevation
MinElevationMain == 2        \* the min_elevation of __main__
Elevations == {NaN, 5, 15}   \* missing, between the two thresholds, above both

InitMask ==
    /\ \E H \in 1..MaxElRows, W \in 1..MaxElCols :
         \E el \in [0..(H - 1) -> [0..(W - 1) -> Elevations]],
            hole \in SUBSET {<<0, 0>>}, p \in BOOLEAN,
            min_elevation \in {MinElevationDefault, MinElevationMain} :
           m_args = [frame |-> DrawFrame(H, W),
                     lon_map |-> DrawGrid(H + 1, W + 1, Cells(H + 1, W + 1) \ hole, {}, p),
                     lat_map |-> DrawGrid(H + 1, W + 1, Cells(H + 1, W + 1) \ hole, {}, ~p),
                     el_map |-> el,
                     min_elevation |-> min_elevation]
    /\ m_ret = <<>>
    /\ x = Unused
    /\ y = Unused
    /\ c = Unused
    /\ x0 = Unused
    /\ y0 = Unused
    /\ ax = NewAxes
    /\ skymap = Unused
    /\ frame = Unused
    /\ log = <<>>
    /\ last = Unused

CallMaskLowHorizon ==
    /\ m_ret = <<>>
    /\ LET r == mask_low_horizon(m_args.frame, m_args.lon_map, m_args.lat_map,
                                 m_args.el_map, m_args.min_elevation)
       IN  /\ m_ret' = <<[frame |-> r.frame_copy, lon_map |-> r.lon_map_copy,
                          lat_map |-> r.lat_map_copy]>>
           /\ m_args' = [m_args EXCEPT !.frame = r.frame, !.lon_map = r.lon_map,
                                       !.lat_map = r.lat_map, !.el_map = r.el_map]
    /\ UNCHANGED <<x, y, c, x0, y0, ax, skymap, frame, log, last>>

NextMask == CallMaskLowHorizon

SpecMask == InitMask /\ [][NextMask]_vars

\* C6 as claimed: for every cell (r, k) whose elevation is missing or below
\* min_elevation, the returned lon and lat grids are NaN at the four bounding
\* vertices (r, k), (r+1, k), (r, k+1), (r+1, k+1) and the returned frame is
\* NaN at (r, k).
C6_FourVerticesInvalid ==
    m_ret # <<>> =>
        \A r \in Rows(m_args.el_map), k \in Cols(m_args.el_map) :
            (isnan(m_args.el_map[r][k]) \/ m_args.el_map[r][k] < m_args.min_elevation) =>
                /\ isnan(m_ret[1].frame[r][k])
                /\ \A v \in {<<r, k>>, <<r + 1, k>>, <<r, k + 1>>, <<r + 1, k + 1>>} :
                      /\ isnan(m_ret[1].lon_map[v[1]][v[2]])
                      /\ isnan(m_ret[1].lat_map[v[1]][v[2]])

\* The arrays _mask_low_horizon returns for the caller's arrays under the
\* threshold T: those of the call made when T is its min_elevation.
MaskedAt(T) ==
    IF T = m_args.min_elevation
    THEN m_ret[1]
    ELSE LET r == mask_low_horizon(m_args.frame, m_args.lon_map, m_args.lat_map,
                                   m_args.el_map, T)
         IN  [frame |-> r.frame_copy, lon_map |-> r.lon_map_copy,
              lat_map |-> r.lat_map_copy]

\* The positions of array a that hold a finite value.
ValidSet(a) == {i \in Rows(a) \X Cols(a) : isfinite(a[i[1]][i[2]])}

\* C11: for the same frame, lon/lat grids and elevation grid and any two
\* thresholds T2 > T1, every frame pixel and every lon and lat vertex that
\* _mask_low_horizon leaves valid under T2 is left valid under T1.
C11_MaskingMonotone ==
    m_ret # <<>> =>
        \A T1, T2 \in {MinElevationDefault, MinElevationMain} :
            T2 > T1 =>
                /\ ValidSet(MaskedAt(T2).frame) \subseteq ValidSet(MaskedAt(T1).frame)
                /\ ValidSet(MaskedAt(T2).lon_map) \subseteq ValidSet(MaskedAt(T1).lon_map)
                /\ ValidSet(MaskedAt(T2).lat_map) \subseteq ValidSet(MaskedAt(T1).lat_map)

\* C11 witness: the call was made under the higher threshold, it left a pixel
\* and a vertex valid, and the lower threshold leaves more of both valid.
C11_Witness ==
    /\ m_ret # <<>>
    /\ m_args.min_elevation = MinElevationDefault
    /\ ValidSet(m_ret[1].frame) # {}
    /\ ValidSet(m_ret[1].frame) # ValidSet(MaskedAt(MinElevationMain).frame)
    /\ ValidSet(m_ret[1].lon_map) # {}
    /\ ValidSet(m_ret[1].lon_map) # ValidSet(MaskedAt(MinElevationMain).lon_map)

(***************************************************************************)
(* plot_map and trex_rgb                                                   *)
(***************************************************************************)
MetresPerKm == 1000

\* np.where(skymap['FULL_MAP_ALTITUDE'] / 1000 == alt)[0]: the indices of the
\* calibration altitudes (in metres) equal to alt km.
AltMatches(sky, alt) ==
    {i \in DOMAIN sky.FULL_MAP_ALTITUDE : sky.FULL_MAP_ALTITUDE[i] = alt * MetresPerKm}

\* mission.lower() on the mission ids that are drawn
lower(mission) ==
    CASE mission \in {"THEMIS", "themis"} -> "themis"
      [] mission \in {"REGO", "rego"} -> "rego"
      [] mission = "TREX" -> "trex"

\* frame /= np.nanmax(frame): the quotient v / m is kept as the pair <<v, m>>,
\* and nan / m and v / nan, which are nan, as <<NaN, 1>>.
Normalised(frm) ==
    LET m == nanmax(Values(frm))
    IN  [r \in Rows(frm) |-> [k \in Cols(frm) |->
            IF isnan(frm[r][k]) \/ isnan(m) THEN <<NaN, 1>> ELSE <<frm[r][k], m>>]]

\* The frame as it is without normalisation, in the same form.
Unnormalised(frm) ==
    [r \in Rows(frm) |-> [k \in Cols(frm) |->
        IF isnan(frm[r][k]) THEN <<NaN, 1>> ELSE <<frm[r][k], 1>>]]

\* Mutant of SetUpAxes: the subplot is created whatever ax is.
SetUpAxesAlwaysNew(a) == [ax |-> NewAxes, is_arg |-> FALSE]

\* Lines 107-116: the subplot to draw on, and whether it is the caller's.
SetUpAxes(a) ==
    IF a.is_none THEN [ax |-> NewAxes, is_arg |-> FALSE] ELSE [ax |-> a, is_arg |-> TRUE]

NoGrid == <<>>
NoMesh == <<>>

\* What a call leaves behind when it raises `error` before drawing: the
\* caller's canvas `a` and arrays as they are, and no result.
Raised(error, a, sky, frm, alt_index) ==
    [outcome |-> error, ax_arg |-> a, ax_ret |-> NoAxes, mesh |-> NoMesh,
     alt_index |-> alt_index,
     lon |-> IF alt_index = None THEN NoGrid ELSE sky.FULL_MAP_LONGITUDE[alt_index],
     lat |-> IF alt_index = None THEN NoGrid ELSE sky.FULL_MAP_LATITUDE[alt_index],
     cmap |-> "None", skymap |-> sky, frame |-> frm]

\* plot_map(time, mission, station, map_alt, ax=a, color_map, min_elevation,
\* norm, color_norm) with asi_label=True and color_bounds=None.  `found` says
\* whether get_frame finds a frame within time_thresh_s of time; sky and frm
\* are what load_skymap and get_frame return.  The result holds the outcome,
\* the caller's canvas after the call (ax_arg), the canvas returned (ax_ret),
\* the mesh handed to ax.pcolormesh, the altitude index and grids resolved,
\* and the contents of the arrays of sky and frm after the call.
plot_map(mission, station, map_alt, a, color_map, min_elevation, norm, color_norm, found, sky, frm) ==
    IF ~found THEN Raised("ValueError: no frame", a, sky, frm, None)
    ELSE IF AltMatches(sky, map_alt) = {}
    THEN Raised("AssertionError", a, sky, frm, None)
    ELSE
    LET alt_index == Min(AltMatches(sky, map_alt))
        m == mask_low_horizon(frm, sky.FULL_MAP_LONGITUDE[alt_index],
                              sky.FULL_MAP_LATITUDE[alt_index],
                              sky.FULL_ELEVATION, min_elevation)
        sky1 == [sky EXCEPT !.FULL_MAP_LONGITUDE[alt_index] = m.lon_map,
                            !.FULL_MAP_LATITUDE[alt_index] = m.lat_map,
                            !.FULL_ELEVATION = m.el_map]
        frame1 == IF norm THEN Normalised(m.frame_copy) ELSE Unnormalised(m.frame_copy)
        axes == SetUpAxes(a)
    IN  IF ~(color_map = "auto" /\ lower(mission) \in {"themis", "rego"})
        THEN Raised("NotImplementedError", a, sky1, m.frame, alt_index)
        ELSE IF color_norm \notin {"log", "lin"}
        THEN Raised("ValueError: color_norm", a, sky1, m.frame, alt_index)
        ELSE
        LET cmap == IF lower(mission) = "themis" THEN "Greys_r" ELSE "black_to_red"
            scale == IF color_norm = "log" THEN "LogNorm" ELSE "Normalize"
            drawn == pcolormesh_nan(m.lon_map_copy, m.lat_map_copy, frame1,
                                    axes.ax, cmap, scale)
            labelled == ax_text(drawn.ax, station)
        IN  [outcome |-> "ok",
             ax_arg |-> IF axes.is_arg THEN labelled ELSE a,
             ax_ret |-> labelled,
             mesh |-> [x |-> drawn.x, y |-> drawn.y, c |-> Reversed(frame1),
                       cmap |-> cmap, norm |-> scale],
             alt_index |-> alt_index,
             lon |-> sky.FULL_MAP_LONGITUDE[alt_index],
             lat |-> sky.FULL_MAP_LATITUDE[alt_index],
             cmap |-> cmap, skymap |-> sky1, frame |-> m.frame]

\* trex_rgb(location_code, time, alt, custom_alt=False), lines 166-173: the
\* lat/lon grids of the Imager's skymap, or the AssertionError.
trex_rgb(alt, sky) ==
    LET alt_index == AltMatches(sky, alt)
    IN  IF Cardinality(alt_index) # 1
        THEN [outcome |-> "AssertionError", alt_index |-> None,
              lon |-> NoGrid, lat |-> NoGrid]
        ELSE [outcome |-> "ok", alt_index |-> Min(alt_index),
              lon |-> sky.FULL_MAP_LONGITUDE[Min(alt_index)],
              lat |-> sky.FULL_MAP_LATITUDE[Min(alt_index)]]

(***************************************************************************)
(* Spec: plot_map called repeatedly, with or without the caller's canvas,  *)
(* on one calibration record and frame, as the loop of __main__ does, and  *)
(* trex_rgb called in exact mode on the same calibration record.           *)
(***************************************************************************)
MaxCalls == 3      \* plot_map calls made against the caller's canvas

\* The stations of __main__ (line 250), one per call.
Stations == <<"FSIM", "ATHA", "TPAS", "SNKQ">>
Missions == {"THEMIS", "rego", "TREX"}
ColorMaps == {"auto", "viridis"}
ColorNorms == {"log", "lin", "sqrt"}
MapAlts == {110, 111}

ZeroBased(t) == [i \in 0..(Len(t) - 1) |-> t[i + 1]]

\* The 2 x 3 lon and lat vertex grids stored at altitude index i.
LonGrid(i) == [r \in 0..1 |-> [k \in 0..2 |-> 100 * (i + 1) + Rising(r, k)]]
LatGrid(i) == [r \in 0..1 |-> [k \in 0..2 |-> 100 * (i + 1) + Falling(2, 3, r, k)]]
NaNGrid == [r \in 0..1 |-> [k \in 0..2 |-> NaN]]

\* Calibration records: three altitudes; the same with no valid vertex at
\* 110 km; and a malformed one that lists 110 km twice.
Skymaps ==
    { [FULL_MAP_ALTITUDE |-> ZeroBased(<<90000, 110000, 130000>>),
       FULL_MAP_LONGITUDE |-> ZeroBased(<<LonGrid(0), LonGrid(1), LonGrid(2)>>),
       FULL_MAP_LATITUDE |-> ZeroBased(<<LatGrid(0), LatGrid(1), LatGrid(2)>>),
       FULL_ELEVATION |-> ZeroBased(<<ZeroBased(<<1, 15>>)>>)],
      [FULL_MAP_ALTITUDE |-> ZeroBased(<<90000, 110000, 130000>>),
       FULL_MAP_LONGITUDE |-> ZeroBased(<<LonGrid(0), NaNGrid, LonGrid(2)>>),
       FULL_MAP_LATITUDE |-> ZeroBased(<<LatGrid(0), NaNGrid, LatGrid(2)>>),
       FULL_ELEVATION |-> ZeroBased(<<ZeroBased(<<1, 15>>)>>)],
      [FULL_MAP_ALTITUDE |-> ZeroBased(<<110000, 110000>>),
       FULL_MAP_LONGITUDE |-> ZeroBased(<<LonGrid(0), LonGrid(1)>>),
       FULL_MAP_LATITUDE |-> ZeroBased(<<LatGrid(0), LatGrid(1)>>),
       FULL_ELEVATION |-> ZeroBased(<<ZeroBased(<<15, NaN>>)>>)] }

NoCall ==
    [fn |-> "none", mission |-> "None", color_map |-> "None", map_alt |-> None,
     with_ax |-> FALSE, outcome |-> "None", alt_index |-> None, lon |-> NoGrid,
     lat |-> NoGrid, cmap |-> "None", ax_ret |-> NoAxes]

Init ==
    /\ skymap \in Skymaps
    /\ frame = ZeroBased(<<ZeroBased(<<3, 6>>)>>)
    /\ ax = NewAxes
    /\ log = <<>>
    /\ last = NoCall
    /\ x = Unused
    /\ y = Unused
    /\ c = Unused
    /\ x0 = Unused
    /\ y0 = Unused
    /\ m_args = Unused
    /\ m_ret = Unused

\* One plot_map call.  With with_ax the caller passes its canvas ax and
\* min_elevation=2 (line 267); without, plot_map is called with its defaults
\* (line 275) and makes a subplot of its own, which it returns.
CallPlotMap ==
    /\ Len(log) < MaxCalls
    /\ \E mission \in Missions, color_map \in ColorMaps, color_norm \in ColorNorms,
          map_alt \in MapAlts, found \in BOOLEAN, with_ax \in BOOLEAN :
         LET station == Stations[(Len(log) % Len(Stations)) + 1]
             min_elevation == IF with_ax THEN MinElevationMain ELSE MinElevationDefault
         IN  \E r \in {plot_map(mission, station, map_alt,
                                 IF with_ax THEN ax ELSE NoAxes, color_map,
                                 min_elevation, TRUE, color_norm, found,
                                 skymap, frame)} :
             /\ ax' = IF with_ax THEN r.ax_arg ELSE ax
             /\ log' = IF with_ax
                       THEN Append(log, [ok |-> r.outcome = "ok", mesh |-> r.mesh])
                       ELSE log
             /\ skymap' = r.skymap
             /\ frame' = r.frame
             /\ last' = [fn |-> "plot_map", mission |-> mission,
                         color_map |-> color_map, map_alt |-> map_alt,
                         with_ax |-> with_ax, outcome |-> r.outcome,
                         alt_index |-> r.alt_index, lon |-> r.lon, lat |-> r.lat,
                         cmap |-> r.cmap, ax_ret |-> r.ax_ret]
    /\ UNCHANGED <<x, y, c, x0, y0, m_args, m_ret>>

\* One trex_rgb call with custom_alt=False.
CallTrexRgb ==
    /\ \E alt \in MapAlts :
         LET r == trex_rgb(alt, skymap)
         IN  last' = [fn |-> "trex_rgb", mission |-> "None", color_map |-> "None",
                      map_alt |-> alt, with_ax |-> FALSE, outcome |-> r.outcome,
                      alt_index |-> r.alt_index, lon |-> r.lon, lat |-> r.lat,
                      cmap |-> "None", ax_ret |-> NoAxes]
    /\ UNCHANGED <<x, y, c, x0, y0, ax, m_args, m_ret, skymap, frame, log>>

Next == CallPlotMap \/ CallTrexRgb

Spec == Init /\ [][Next]_vars

(***************************************************************************)
(* Claims about plot_map and trex_rgb, checked under Spec.                 *)
(***************************************************************************)
\* The meshes that the calls of the log that returned without error handed to
\* the renderer, in call order.
RECURSIVE OkMeshes(_)
OkMeshes(l) ==
    IF l = <<>> THEN <<>>
    ELSE IF l[1].ok THEN <<l[1].mesh>> \o OkMeshes(Tail(l))
         ELSE OkMeshes(Tail(l))

\* C7: no plot_map call (and so no _mask_low_horizon call inside it) and no
\* trex_rgb call changes the calibration record's lon, lat and elevation
\* grids or the frame; masking, normalisation and compression work on copies.
C7_InputsNotMutated ==
    [][skymap' = skymap /\ frame' = frame]_vars

\* C7 witness: two plot_map calls have reused the calibration record and the
\* frame, and the first one masked and compressed its copy of the lon grid.
C7_Witness ==
    /\ Len(log) >= 2 /\ log[1].ok /\ log[2].ok
    /\ last.fn = "plot_map" /\ last.outcome = "ok"
    /\ \A i \in DOMAIN skymap.FULL_MAP_LONGITUDE :
          log[1].mesh.x # skymap.FULL_MAP_LONGITUDE[i]

\* The last call was made in exact mode and got as far as resolving the
\* altitude (get_frame found a frame).
ExactMode ==
    last.fn \in {"plot_map", "trex_rgb"} /\ last.outcome # "ValueError: no frame"

\* C8 as claimed: in exact mode the grids are resolved if and only if map_alt
\* matches exactly one calibration altitude, they are the grids stored at that
\* index, and with zero or several matches the call fails with the
\* AssertionError that lists the altitudes and returns no canvas.
C8_AltitudeExactlyOnce ==
    ExactMode =>
        LET n == Cardinality(AltMatches(skymap, last.map_alt))
        IN  /\ (last.alt_index # None) <=> (n = 1)
            /\ (last.alt_index # None) =>
                  /\ last.alt_index \in AltMatches(skymap, last.map_alt)
                  /\ last.lon = skymap.FULL_MAP_LONGITUDE[last.alt_index]
                  /\ last.lat = skymap.FULL_MAP_LATITUDE[last.alt_index]
            /\ (n # 1) => (last.outcome = "AssertionError" /\ last.ax_ret.is_none)

\* The last call was a plot_map call that got as far as choosing the colormap.
ReachedColorMap ==
    /\ last.fn = "plot_map"
    /\ last.outcome \notin {"ValueError: no frame", "AssertionError"}

\* C9 as claimed: plot_map raises NotImplementedError if and only if color_map
\* is 'auto' and the lower-cased mission is neither themis nor rego; with
\* 'auto' and a recognised mission the mission's palette is used, and another
\* color_map is used as given.
C9_ColorMapSelection ==
    ReachedColorMap =>
        /\ (last.outcome = "NotImplementedError") <=>
              (last.color_map = "auto" /\ lower(last.mission) \notin {"themis", "rego"})
        /\ (last.color_map = "auto" /\ lower(last.mission) = "themis")
              => last.cmap = "Greys_r"
        /\ (last.color_map = "auto" /\ lower(last.mission) = "rego")
              => last.cmap = "black_to_red"
        /\ (last.color_map # "auto") => last.cmap = last.color_map

\* C10: the caller's canvas holds exactly the meshes of the plot_map calls made
\* against it that returned without error, in call order: a later call keeps
\* every earlier mesh and a call that raises adds nothing.
C10_OneMeshPerGoodCall ==
    ax.meshes = OkMeshes(log)

\* C10 witness: three calls against the canvas, the second of which raised;
\* the canvas holds the two different meshes of the first and the third.
C10_Witness ==
    /\ Len(log) = 3
    /\ log[1].ok /\ ~log[2].ok /\ log[3].ok
    /\ log[1].mesh # log[3].mesh
    /\ ax.meshes = <<log[1].mesh, log[3].mesh>>

====
